---- MODULE Spec2Model ----
(***************************************************************************)
(* Realtime synchronization layer of the elevator-scheduling frontend:     *)
(* the push connection of frontend/src/api/api.js (createWebSocketClient), *)
(* its consumer frontend/src/App.js (mount effect, reconnect timer,        *)
(* onMessage callback) and the store the frames are applied to.            *)
(*                                                                         *)
(* Sockets are numbered 1..Len(readyState) in the order they are           *)
(* constructed; client i is the object literal that wraps socket i.        *)
(* NULL (0) stands for JavaScript null.  The browser's event loop runs one *)
(* task at a time, so every handler is one atomic action.                  *)
(*                                                                         *)
(* Mount and Unmount are the setup and the cleanup of App's mount effect.  *)
(* React may run the pair more than once on one component (the effect's    *)
(* guard on wsClientRef.current exists for that case), so the ref, the     *)
(* state and the pending timers of App outlive an Unmount.                 *)
(*                                                                         *)
(* The running flag and the event list belong to the command and polling   *)
(* handlers; the push layer starts from any value they can have.           *)
(*                                                                         *)
(* Spec is the push layer, SendSpec adds the callers of client.send to the *)
(* connection layer, AppSpec is the command and polling handlers of App    *)
(* and of its child Statistics (frontend/src/components/Statistics.jsx),   *)
(* and StatsSpec is Statistics alone.  The handlers of AppSpec write no    *)
(* variable of the connection layer; the snapshot reaches them through     *)
(* PushApplied.  An HTTP request is in flight from the call of the api     *)
(* function to the task that resumes the caller after its await.           *)
(* CommandSpec is the six commands of the operator with their responses,   *)
(* ControlsSpec is the commands as the buttons of Controls allow them,     *)
(* FrameSpec is the push layer fed with frames of every shape, and         *)
(* EarlierSpec is the earlier App and api.js kept in unnamed/part_002.     *)
(***************************************************************************)
EXTENDS Integers, Sequences, FiniteSets, Bags, TLC

\* ---------------------------------------------------------------- bounds
\* WebSocket objects constructed in one behaviour
MaxSockets == 3
\* message tasks queued in the event loop and not yet dispatched
MaxInbox == 2
\* granularity of the passage of time, in milliseconds
TickMs == 1000
\* granularity of the passage of time for the polling intervals, in
\* milliseconds
PollTickMs == 2500

\* WebSocket objects constructed in one behaviour of the earlier App
MaxEarlierSockets == 4

\* floors offered by the passenger form
MaxFloor == 3
\* HTTP requests in flight at one time
MaxPending == 3
\* successful statistics fetches in one behaviour of the Statistics component
MaxFetches == 22
\* successful statistics fetches in one behaviour of the whole application
MaxAppFetches == 1

\* ------------------------------------------------------ program constants
\* period of the events polling interval
EventsPollMs == 2000
\* period of the statistics polling interval
StatsPollMs == 5000
\* count of events fetchEvents asks for
EventsLimit == 100
\* points kept in the statistics history
HistoryCap == 20
\* delay handed to setTimeout by the onDisconnect callback
ReconnectDelayMs == 3000

NULL == 0

VARIABLES
    readyState,       \* readyState[i]: WebSocket.readyState of socket i
    activeWebSocket,  \* module variable of api.js: NULL or a client
    wsClientRef,      \* wsClientRef.current of App: NULL or a client
    mounted,          \* the mount effect of App has run and was not cleaned up
    timers,           \* pending setTimeout tasks of onDisconnect, oldest first
    inbox,            \* message tasks queued by the browser, oldest first
    simulationState,  \* useState of App: the snapshot
    isRunning,        \* useState of App: the running flag
    events,           \* useState of App: the event list
    outcome,          \* how the latest run of ws.onmessage ended
    sendResult,       \* how the latest call of client.send ended
    pending,          \* HTTP requests in flight (a bag)
    eventsInterval,   \* the setInterval of App's events effect, if any
    statsInterval,    \* the setInterval of Statistics' effect, if any
    stats,            \* useState of Statistics: the latest statistics
    historicalData,   \* useState of Statistics: the history of points
    failure,          \* the latest failed request and how it was reported
    flagWriter,       \* the handler that wrote the running flag last
    staleEvents,      \* GET /events in flight that were issued before the
                      \* latest successful reset or stop of the polling
    elevators,        \* useState of Building: the elevators it draws (their
                      \* number; 0 is the empty list)
    wsClient,         \* earlier App (unnamed/part_002): useState, NULL or a
                      \* client
    cleanupClient     \* earlier App: the wsClient the latest run of the
                      \* mount effect has captured for its cleanup

vars == <<readyState, activeWebSocket, wsClientRef, mounted, timers, inbox,
          simulationState, isRunning, events, outcome,
          sendResult, pending, eventsInterval, statsInterval, stats,
          historicalData, failure, flagWriter, staleEvents, elevators,
          wsClient, cleanupClient>>

\* the state of the earlier App, which no handler of the current one writes
earlierVars == <<wsClient, cleanupClient>>

\* what client.send, the HTTP layer and the polling effects own
pollVars == <<sendResult, pending, eventsInterval, statsInterval, stats,
              historicalData, failure, flagWriter, staleEvents, elevators,
              earlierVars>>

\* the connection layer
connVars == <<readyState, activeWebSocket, wsClientRef, timers, inbox,
              earlierVars>>

\* ------------------------------------------------------------ JSON values
\* A snapshot object; a field equal to 0 is a key the object does not have.
SnapshotObject(t, e) == [tag |-> "object", time |-> t, elevators |-> e]
NullSnapshot == [tag |-> "null", time |-> 0, elevators |-> 0]
UndefinedValue == [tag |-> "undefined", time |-> 0, elevators |-> 0]

\* the data payloads the server pushes: a full snapshot and one that lacks
\* the elevators key
Payloads == {SnapshotObject(1, 1), SnapshotObject(2, 0)}

\* the result of JSON.parse on a well-formed text
JsonValue(k, ty, d) == [kind |-> k, type |-> ty, data |-> d]

\* frames as they arrive: the text either parses to val or does not parse
Frame(ok, v) == [wellFormed |-> ok, val |-> v]

StateUpdateFrames ==
    {Frame(TRUE, JsonValue("object", "state_update", p)) : p \in Payloads}
\* a text that JSON.parse rejects
MalformedFrame == Frame(FALSE, JsonValue("null", "undefined", UndefinedValue))
\* an envelope of another type
OtherTypeFrame == Frame(TRUE, JsonValue("object", "event", SnapshotObject(1, 1)))

Frames == StateUpdateFrames \cup {MalformedFrame, OtherTypeFrame}

\* the store values the command and polling handlers of App leave behind
EventLists == {<<>>, <<"event">>}

\* ------------------------------------------------- WebSocket (the browser)
NonClosed(rs) == {i \in DOMAIN rs : rs[i] # "CLOSED"}
Live(rs) == {i \in DOMAIN rs : rs[i] \in {"CONNECTING", "OPEN"}}

\* WebSocket.close() on socket i: a CONNECTING or OPEN socket becomes
\* CLOSING, and its close event is dispatched by a later task
WsClose(rs, i) ==
    IF i # NULL /\ rs[i] \in {"CONNECTING", "OPEN"}
    THEN [rs EXCEPT ![i] = "CLOSING"]
    ELSE rs

\* a message task of a socket that is no longer OPEN does not reach onmessage
DiscardFrames(q, i) == SelectSeq(q, LAMBDA m : m.sock # i)

QueuedFor(i) == {k \in DOMAIN inbox : inbox[k].sock = i}

\* ------------------------------------------------------------------ api.js
\* the readyState property of a client: the object literal has the keys
\* send, close and getState only
ClientReadyState(c) == "undefined"

\* the reuse test at the head of createWebSocketClient
Reusable(active) == active # NULL /\ ClientReadyState(active) = "OPEN"

\* the client createWebSocketClient returns
CreatedClient(active, rs) == IF Reusable(active) THEN active ELSE Len(rs) + 1

\* client.close(): ws.close(); activeWebSocket = null
ClientClose(c) ==
    /\ readyState' = WsClose(readyState, c)
    /\ activeWebSocket' = NULL
    /\ inbox' = DiscardFrames(inbox, c)

\* createWebSocketClient(onMessage, onConnect, onDisconnect)
CreateWebSocketClient ==
    IF Reusable(activeWebSocket)
    THEN UNCHANGED <<readyState, activeWebSocket, inbox>>
    ELSE /\ readyState' = Append(WsClose(readyState, activeWebSocket), "CONNECTING")
         /\ activeWebSocket' = Len(readyState) + 1
         /\ inbox' = DiscardFrames(inbox, activeWebSocket)

\* a variant that tests for CLOSED only
ClientSendUnlessClosed(rs) == IF rs # "CLOSED" THEN "transmitted" ELSE "warned"

\* client.send(data): ws.send(JSON.stringify(data)) if the socket is OPEN,
\* console.warn otherwise
ClientSendResult(rs) == IF rs = "OPEN" THEN "transmitted" ELSE "warned"

\* ------------------------------------------------------------------ App.js
\* a variant that hands setTimeout no delay
OnDisconnectNoDelay(ts) == Append(ts, [elapsed |-> 0, delay |-> 0])

\* the onDisconnect callback: setTimeout(..., 3000)
OnDisconnect(ts) == Append(ts, [elapsed |-> 0, delay |-> ReconnectDelayMs])

\* a variant that merges the payload into the held snapshot key by key
AppOnMessageMerge(store, data) ==
    IF data.type = "state_update"
    THEN [store EXCEPT !.simulationState =
            IF data.data.tag = "object" /\ @.tag = "object"
            THEN SnapshotObject(
                   IF data.data.time = 0 THEN @.time ELSE data.data.time,
                   IF data.data.elevators = 0 THEN @.elevators ELSE data.data.elevators)
            ELSE data.data]
    ELSE store

\* the onMessage callback, applied to a decoded value
AppOnMessage(store, data) ==
    IF data.type = "state_update"
    THEN [store EXCEPT !.simulationState = data.data]
    ELSE store

\* JSON.parse(event.data) throws a SyntaxError
JsonParseThrows(frame) == ~frame.wellFormed

\* a variant that rejects every envelope it has no branch for
AppOnMessageThrowsOnUnknown(data) ==
    data.kind = "null" \/ data.type # "state_update"

\* reading data.type of null throws a TypeError inside the callback
AppOnMessageThrows(data) == data.kind = "null"

\* a variant whose catch clause hands the failed result on to the store
WsOnMessageClearsOnError(store, frame) ==
    IF JsonParseThrows(frame) \/ AppOnMessageThrows(frame.val)
    THEN [store |-> [store EXCEPT !.simulationState = UndefinedValue],
          outcome |-> "caught"]
    ELSE [store |-> AppOnMessage(store, frame.val), outcome |-> "ok"]

\* ws.onmessage: JSON.parse and the callback run inside one try block, so
\* either exception ends in the catch clause, which logs and returns
WsOnMessage(store, frame) ==
    IF JsonParseThrows(frame) \/ AppOnMessageThrows(frame.val)
    THEN [store |-> store, outcome |-> "caught"]
    ELSE [store |-> AppOnMessage(store, frame.val), outcome |-> "ok"]

Store == [simulationState |-> simulationState, isRunning |-> isRunning,
          events |-> events]

\* ------------------------------------------------------- HTTP (api.api)
Request(m, p, l) == [method |-> m, path |-> p, limit |-> l]
NoRequest == Request("none", "none", 0)

GetStatus == Request("GET", "/status", 0)
PostStart == Request("POST", "/start", 0)
PostStop == Request("POST", "/stop", 0)
PostReset == Request("POST", "/reset", 0)
\* api.getEvents(limit): GET /events?limit=${limit}&skip=0
GetEvents(limit) == Request("GET", "/events", limit)
GetStatistics == Request("GET", "/stats", 0)

\* api.addPassenger, api.pressButton, api.updateConfiguration
PostPassengers == Request("POST", "/passengers", 0)
PostButton == Request("POST", "/button", 0)
PutConfig == Request("PUT", "/config", 0)

\* the error a failed request rejects with: error.response.data.detail is a
\* text of the server or undefined, error.message is a text of axios
Error(has) == [hasDetail |-> has]
Errors == {Error(TRUE), Error(FALSE)}
ServerDetail == "detail"
TransportMessage == "message"

\* a text is the sequence of its parts; the empty text is falsy
Truthy(text) == text # <<>>

\* prefix + error.response?.data?.detail: undefined is converted to text
Concatenated(prefix, err) ==
    <<prefix, IF err.hasDetail THEN ServerDetail ELSE "undefined">>

\* a variant that applies || before +
AlertTextDetailOrMessage(prefix, err) ==
    <<prefix, IF err.hasDetail THEN ServerDetail ELSE TransportMessage>>

\* the argument of alert: prefix + error.response?.data?.detail ||
\* error.message, in which + is applied before ||
AlertText(prefix, err) ==
    IF Truthy(Concatenated(prefix, err))
    THEN Concatenated(prefix, err)
    ELSE <<TransportMessage>>

\* the catch clauses that call alert after console.error
Alerting == {PostStart, PostPassengers}

AlertPrefix(r) ==
    IF r = PostStart THEN "Failed to start simulation: "
    ELSE "Failed to add passenger: "

\* what the catch clause of the caller of request r reports: the request,
\* whether alert was called, and with which text made from which error
FailureReport(r, err) ==
    [request |-> r, alerted |-> r \in Alerting,
     message |-> IF r \in Alerting THEN AlertText(AlertPrefix(r), err) ELSE <<>>,
     error |-> IF r \in Alerting THEN err ELSE Error(FALSE)]

NoFailure ==
    [request |-> NoRequest, alerted |-> FALSE, message |-> <<>>,
     error |-> Error(FALSE)]

\* what setInterval(callback, ms) creates
Interval(ms) == <<[elapsed |-> 0, delay |-> ms]>>

Due(interval) == interval # <<>> /\ interval[1].elapsed >= interval[1].delay

Advanced(interval) ==
    [k \in DOMAIN interval |->
        [interval[k] EXCEPT !.elapsed =
            IF @ + PollTickMs < interval[k].delay THEN @ + PollTickMs
            ELSE interval[k].delay]]

\* ------------------------------------------------- App.js: events polling
\* the request fetchEvents issues: api.getEvents(100)
FetchEventsRequest == GetEvents(EventsLimit)

\* a variant that keeps the interval whatever the flag is
EventsEffectIntervalAlways(running) == Interval(EventsPollMs)

\* the events effect, run with the running flag it depends on: the cleanup
\* of the previous run has cleared its interval; with the flag set, the
\* effect calls fetchEvents() and setInterval(fetchEvents, 2000)
EventsEffectInterval(running) ==
    IF running THEN Interval(EventsPollMs) ELSE <<>>

EventsEffectRequests(running) ==
    IF running THEN SetToBag({FetchEventsRequest}) ELSE EmptyBag

\* the body of a 2xx response to GET /events: with or without an events list
EventsBody(has, list) == [hasEvents |-> has, events |-> list]
EventsBodies ==
    {EventsBody(TRUE, l) : l \in EventLists} \cup {EventsBody(FALSE, <<>>)}

\* a variant that appends the fetched list to the local one
EventsAppliedAppend(prev, body) ==
    IF body.hasEvents THEN prev \o body.events ELSE prev

\* fetchEvents after the response: setEvents(response.data.events) if the
\* body has an events list
EventsApplied(prev, body) == IF body.hasEvents THEN body.events ELSE prev

\* ------------------------------------------- Statistics.jsx: stats polling
\* the test of the effect: simulationState && simulationState.time > 0
StatsGate(snapshot) == snapshot.tag = "object" /\ snapshot.time > 0

\* the stats effect, run with the snapshot it depends on: the cleanup of the
\* previous run has cleared its interval; if the test passes, the effect
\* calls fetchStats() and setInterval(fetchStats, 5000)
StatsEffectInterval(snapshot) ==
    IF StatsGate(snapshot) THEN Interval(StatsPollMs) ELSE <<>>

StatsEffectRequests(snapshot) ==
    IF StatsGate(snapshot) THEN SetToBag({GetStatistics}) ELSE EmptyBag

\* the statistics object Statistics starts with: every figure is zero
StatsObject(w) == [average_wait_time |-> w]
InitialStats == StatsObject(0)

\* the body of a 2xx response to GET /stats: the statistics, or nothing
StatsBody(has, w) == [hasData |-> has, data |-> StatsObject(w)]
StatsBodies == {StatsBody(TRUE, 1), StatsBody(FALSE, 0)}

\* a history point: the time of day it was made and figures of the response
Point(t, s) == [time |-> t, waitTime |-> s.average_wait_time]

\* new Date() when a response is handled: later than the last point's time
NextTime(prev) == IF prev = <<>> THEN 1 ELSE prev[Len(prev)].time + 1

\* Array.prototype.slice(-n)
SliceLast(seq, n) ==
    IF Len(seq) <= n THEN seq ELSE SubSeq(seq, Len(seq) - n + 1, Len(seq))

\* a variant that keeps the first points instead of the last ones
HistoryAppendedKeepFirst(prev, s) ==
    SubSeq(Append(prev, Point(NextTime(prev), s)), 1,
           IF Len(prev) + 1 < HistoryCap THEN Len(prev) + 1 ELSE HistoryCap)

\* setHistoricalData(prev => [...prev, point].slice(-20))
HistoryAppended(prev, s) ==
    SliceLast(Append(prev, Point(NextTime(prev), s)), HistoryCap)

\* ------------------------------------------------------------------ state
\* nothing was sent or requested, and no polling effect has run
PollInit ==
    /\ sendResult = [client |-> NULL, result |-> "none"]
    /\ pending = EmptyBag
    /\ eventsInterval = <<>>
    /\ statsInterval = <<>>
    /\ stats = InitialStats
    /\ historicalData = <<>>
    /\ failure = NoFailure
    /\ flagWriter = "none"
    /\ staleEvents = 0
    /\ elevators = 0
    /\ wsClient = NULL
    /\ cleanupClient = NULL

Init ==
    /\ readyState = <<>>
    /\ activeWebSocket = NULL
    /\ wsClientRef = NULL
    /\ mounted = FALSE
    /\ timers = <<>>
    /\ inbox = <<>>
    /\ simulationState = NullSnapshot
    /\ isRunning \in BOOLEAN
    /\ events \in EventLists
    /\ outcome = "none"
    /\ PollInit

\* the mount effect of App: acquire a connection unless the ref holds one
Mount ==
    /\ ~mounted
    /\ Len(readyState) < MaxSockets
    /\ mounted' = TRUE
    /\ IF wsClientRef = NULL
       THEN /\ CreateWebSocketClient
            /\ wsClientRef' = CreatedClient(activeWebSocket, readyState)
       ELSE UNCHANGED <<readyState, activeWebSocket, inbox, wsClientRef>>
    /\ UNCHANGED <<timers, simulationState, isRunning, events, outcome>>
    /\ UNCHANGED pollVars

\* the cleanup of the mount effect
Unmount ==
    /\ mounted
    /\ mounted' = FALSE
    /\ IF wsClientRef # NULL
       THEN /\ ClientClose(wsClientRef)
            /\ wsClientRef' = NULL
       ELSE UNCHANGED <<readyState, activeWebSocket, inbox, wsClientRef>>
    /\ UNCHANGED <<timers, simulationState, isRunning, events, outcome>>
    /\ UNCHANGED pollVars

\* ws.onopen: the connection is established; onConnect only logs
SocketOpen(i) ==
    /\ readyState[i] = "CONNECTING"
    /\ readyState' = [readyState EXCEPT ![i] = "OPEN"]
    /\ UNCHANGED <<activeWebSocket, wsClientRef, mounted, timers, inbox,
                   simulationState, isRunning, events, outcome>>
    /\ UNCHANGED pollVars

\* ws.onclose: activeWebSocket = null; onDisconnect()
WsOnClose(i) ==
    /\ readyState' = [readyState EXCEPT ![i] = "CLOSED"]
    /\ activeWebSocket' = NULL
    /\ timers' = OnDisconnect(timers)
    /\ UNCHANGED <<wsClientRef, mounted, inbox, simulationState, isRunning, events, outcome>>
    /\ UNCHANGED pollVars

\* the server or the transport ends a connection the client did not close;
\* the close task runs after the message tasks queued before it
SocketDrop(i) ==
    /\ readyState[i] \in {"CONNECTING", "OPEN"}
    /\ QueuedFor(i) = {}
    /\ WsOnClose(i)

\* the close event of a socket the client closed with close()
SocketCloseComplete(i) ==
    /\ readyState[i] = "CLOSING"
    /\ WsOnClose(i)

\* the server pushes a frame on an open connection
ServerSend(i, f) ==
    /\ readyState[i] = "OPEN"
    /\ Len(inbox) < MaxInbox
    /\ inbox' = Append(inbox, [sock |-> i, frame |-> f])
    /\ UNCHANGED <<readyState, activeWebSocket, wsClientRef, mounted, timers,
                   simulationState, isRunning, events, outcome>>
    /\ UNCHANGED pollVars

\* the oldest message task runs ws.onmessage of its socket
Deliver ==
    /\ inbox # <<>>
    /\ LET r == WsOnMessage(Store, Head(inbox).frame) IN
         /\ simulationState' = r.store.simulationState
         /\ isRunning' = r.store.isRunning
         /\ events' = r.store.events
         /\ outcome' = r.outcome
    /\ inbox' = Tail(inbox)
    /\ UNCHANGED <<readyState, activeWebSocket, wsClientRef, mounted, timers>>
    /\ UNCHANGED pollVars

Min(a, b) == IF a < b THEN a ELSE b

\* time passes while a timer has not reached its delay
Tick ==
    /\ \E k \in DOMAIN timers : timers[k].elapsed < timers[k].delay
    /\ timers' = [k \in DOMAIN timers |->
                    [timers[k] EXCEPT !.elapsed = Min(@ + TickMs, timers[k].delay)]]
    /\ UNCHANGED <<readyState, activeWebSocket, wsClientRef, mounted, inbox,
                   simulationState, isRunning, events, outcome>>
    /\ UNCHANGED pollVars

\* the callback of the oldest reconnect timer runs: wsClientRef.current = null
ReconnectTimerFires ==
    /\ timers # <<>>
    /\ Head(timers).elapsed >= Head(timers).delay
    /\ wsClientRef' = NULL
    /\ timers' = Tail(timers)
    /\ UNCHANGED <<readyState, activeWebSocket, mounted, inbox,
                   simulationState, isRunning, events, outcome>>
    /\ UNCHANGED pollVars

\* a holder of client c calls c.send(data)
ClientSend(c) ==
    /\ sendResult' = [client |-> c, result |-> ClientSendResult(readyState[c])]
    /\ UNCHANGED <<readyState, activeWebSocket, wsClientRef, mounted, timers,
                   inbox, simulationState, isRunning, events, outcome>>
    /\ UNCHANGED <<pending, eventsInterval, statsInterval, stats,
                   historicalData, failure, flagWriter, staleEvents, elevators,
                   earlierVars>>

Next ==
    \/ Mount
    \/ Unmount
    \/ \E i \in DOMAIN readyState : SocketOpen(i)
    \/ \E i \in DOMAIN readyState : SocketDrop(i)
    \/ \E i \in DOMAIN readyState : SocketCloseComplete(i)
    \/ \E i \in DOMAIN readyState : \E f \in Frames : ServerSend(i, f)
    \/ Deliver
    \/ Tick
    \/ ReconnectTimerFires

Spec == Init /\ [][Next]_vars

\* the event loop runs every task that is ready: due timers, queued message
\* tasks and the close event of a socket the client closed; time passes
FairSpec ==
    /\ Spec
    /\ WF_vars(Tick)
    /\ WF_vars(ReconnectTimerFires)
    /\ WF_vars(Deliver)
    /\ WF_vars(\E i \in DOMAIN readyState : SocketCloseComplete(i))

\* texts that parse but are not envelopes with a payload: the JSON null, a
\* JSON number, and a state_update object without the data key
NullFrame == Frame(TRUE, JsonValue("null", "undefined", UndefinedValue))
ScalarFrame == Frame(TRUE, JsonValue("scalar", "undefined", UndefinedValue))
NoDataFrame == Frame(TRUE, JsonValue("object", "state_update", UndefinedValue))
ShapelessFrames == {NullFrame, ScalarFrame, NoDataFrame}

\* the dispatch of frames of every shape on connections the server does
\* not drop
FrameNext ==
    \/ Mount
    \/ Unmount
    \/ \E i \in DOMAIN readyState : SocketOpen(i)
    \/ \E i \in DOMAIN readyState :
          \E f \in StateUpdateFrames \cup ShapelessFrames : ServerSend(i, f)
    \/ Deliver

FrameSpec == Init /\ [][FrameNext]_vars

\* the connection layer with callers of client.send; no frame is pushed
SendNext ==
    \/ Mount
    \/ Unmount
    \/ \E i \in DOMAIN readyState : SocketOpen(i)
    \/ \E i \in DOMAIN readyState : SocketDrop(i)
    \/ \E i \in DOMAIN readyState : SocketCloseComplete(i)
    \/ Tick
    \/ ReconnectTimerFires
    \/ \E c \in DOMAIN readyState : ClientSend(c)

SendSpec == Init /\ [][SendNext]_vars

\* ------------------------------------- command and polling handlers of App
\* and of Statistics.  Frames reach them through PushApplied, which stands
\* for the dispatch of a frame on a connection of the push layer above.
AppInit ==
    /\ readyState = <<>>
    /\ activeWebSocket = NULL
    /\ wsClientRef = NULL
    /\ mounted = FALSE
    /\ timers = <<>>
    /\ inbox = <<>>
    /\ simulationState = NullSnapshot
    /\ isRunning = FALSE
    /\ events = <<>>
    /\ outcome = "none"
    /\ PollInit

\* the effect of Building, run with the snapshot it depends on: a snapshot
\* that is not null replaces the elevators Building draws (an object
\* without the key gives the empty list), null leaves them as they are
BuildingEffect(snapshot, prev) ==
    IF snapshot.tag = "object" THEN snapshot.elevators ELSE prev

\* React renders after a state update and, while the components are
\* mounted, re-runs the effects whose dependency changed before the next
\* task: the events effect on a new running flag, the stats effect on a new
\* snapshot.  The answered requests leave the requests in flight and the
\* issued ones join them.
Render(newSnapshot, answered, issued) ==
    LET evRun == mounted /\ isRunning' # isRunning
        stRun == mounted /\ newSnapshot
    IN  /\ eventsInterval' =
               IF evRun THEN EventsEffectInterval(isRunning') ELSE eventsInterval
        /\ statsInterval' =
               IF stRun THEN StatsEffectInterval(simulationState') ELSE statsInterval
        /\ pending' =
               (((pending (-) answered) (+) issued)
                  (+) (IF evRun THEN EventsEffectRequests(isRunning') ELSE EmptyBag))
                  (+) (IF stRun THEN StatsEffectRequests(simulationState') ELSE EmptyBag)
        /\ BagCardinality(pending') <= MaxPending
        /\ elevators' =
               IF stRun THEN BuildingEffect(simulationState', elevators)
               ELSE elevators
        /\ staleEvents' =
               IF BagIn(PostReset, answered) \/ (isRunning /\ ~isRunning')
               THEN CopiesIn(FetchEventsRequest, pending')
               ELSE staleEvents

\* the effects that run when App and its child Statistics are mounted,
\* beside the WebSocket effect: the stats effect, fetchStatus and the events
\* effect
PollMount ==
    /\ ~mounted
    /\ mounted' = TRUE
    /\ statsInterval' = StatsEffectInterval(simulationState)
    /\ eventsInterval' = EventsEffectInterval(isRunning)
    /\ pending' = ((pending (+) StatsEffectRequests(simulationState))
                      (+) SetToBag({GetStatus}))
                      (+) EventsEffectRequests(isRunning)
    /\ BagCardinality(pending') <= MaxPending
    /\ UNCHANGED <<connVars, flagWriter, staleEvents, simulationState, isRunning, events, outcome,
                   sendResult, stats, historicalData, failure>>
    /\ elevators' = BuildingEffect(simulationState, elevators)

\* a variant whose cleanups leave the intervals running
PollUnmountKeepsIntervals ==
    /\ mounted
    /\ mounted' = FALSE
    /\ UNCHANGED <<connVars, elevators, flagWriter, staleEvents, simulationState, isRunning, events, outcome,
                   sendResult, pending, eventsInterval, statsInterval, stats,
                   historicalData, failure>>

\* the cleanups of the events effect and of the stats effect: clearInterval
PollUnmount ==
    /\ mounted
    /\ mounted' = FALSE
    /\ eventsInterval' = <<>>
    /\ statsInterval' = <<>>
    /\ UNCHANGED <<connVars, elevators, flagWriter, staleEvents, simulationState, isRunning, events, outcome,
                   sendResult, pending, stats, historicalData, failure>>

\* a click on a button of Controls calls the handler, which issues request
\* r and awaits the response
Command(r) ==
    /\ mounted
    /\ pending' = pending (+) SetToBag({r})
    /\ BagCardinality(pending') <= MaxPending
    /\ UNCHANGED <<connVars, elevators, flagWriter, staleEvents, mounted, simulationState, isRunning, events,
                   outcome, sendResult, eventsInterval, statsInterval, stats,
                   historicalData, failure>>

\* a variant that sets the flag when the request is issued
HandleStartSimulationOptimistic ==
    /\ ~isRunning
    /\ mounted
    /\ isRunning' = TRUE
    /\ UNCHANGED <<simulationState, events>>
    /\ Render(FALSE, EmptyBag, SetToBag({PostStart}))
    /\ UNCHANGED <<connVars, flagWriter, mounted, outcome, sendResult, stats,
                   historicalData, failure>>

\* the Start button, rendered while the flag is false
HandleStartSimulation == ~isRunning /\ Command(PostStart)

\* the Stop button, rendered while the flag is true
HandleStopSimulation == isRunning /\ Command(PostStop)

\* a variant that clears the store when the request is issued
HandleResetSimulationOptimistic ==
    /\ mounted
    /\ events' = <<>>
    /\ simulationState' = NullSnapshot
    /\ UNCHANGED isRunning
    /\ Render(simulationState # NullSnapshot, EmptyBag, SetToBag({PostReset}))
    /\ UNCHANGED <<connVars, flagWriter, mounted, outcome, sendResult, stats,
                   historicalData, failure>>

\* the Reset button
HandleResetSimulation == Command(PostReset)

\* the floors the selects of the passenger form offer
Floors == 1 .. MaxFloor

\* the alert of handleAddPassenger for equal floors
ValidationReport ==
    [request |-> NoRequest, alerted |-> TRUE,
     message |-> <<"Start and destination floors must be different">>,
     error |-> Error(FALSE)]

\* a variant without the return after the alert
HandleAddPassengerNoReturn(s, d) ==
    /\ mounted
    /\ failure' = IF s = d THEN ValidationReport ELSE failure
    /\ pending' = pending (+) SetToBag({PostPassengers})
    /\ BagCardinality(pending') <= MaxPending
    /\ UNCHANGED <<connVars, elevators, flagWriter, staleEvents, mounted, simulationState, isRunning,
                   events, outcome, sendResult, eventsInterval, statsInterval,
                   stats, historicalData>>

\* the submit handler of the passenger form, with start floor s and
\* destination floor d: alert and return if they are equal, otherwise
\* api.addPassenger(s, d)
HandleAddPassenger(s, d) ==
    /\ mounted
    /\ IF s = d
       THEN /\ failure' = ValidationReport
            /\ UNCHANGED pending
       ELSE /\ pending' = pending (+) SetToBag({PostPassengers})
            /\ BagCardinality(pending') <= MaxPending
            /\ UNCHANGED failure
    /\ UNCHANGED <<connVars, elevators, flagWriter, staleEvents, mounted, simulationState, isRunning,
                   events, outcome, sendResult, eventsInterval, statsInterval,
                   stats, historicalData>>

\* a click on a call button of Building: api.pressButton(floor, direction)
HandleCallElevator == Command(PostButton)

\* the submit handler of the configuration form:
\* api.updateConfiguration(config)
HandleConfigUpdate == Command(PutConfig)

\* the commands whose handlers do nothing after the await
OtherCommands == {PostPassengers, PostButton, PutConfig}

\* a variant that empties the event list when the command has succeeded
OtherCommandSucceedsClears(r) ==
    /\ BagIn(r, pending)
    /\ pending' = pending (-) SetToBag({r})
    /\ events' = <<>>
    /\ UNCHANGED <<connVars, elevators, flagWriter, staleEvents, mounted, simulationState, isRunning,
                   outcome, sendResult, eventsInterval, statsInterval,
                   stats, historicalData, failure>>

\* handleAddPassenger, handleCallElevator or handleConfigUpdate after the
\* response: the try block ends
OtherCommandSucceeds(r) ==
    /\ BagIn(r, pending)
    /\ pending' = pending (-) SetToBag({r})
    /\ UNCHANGED <<connVars, elevators, flagWriter, staleEvents, mounted, simulationState, isRunning,
                   events, outcome, sendResult, eventsInterval, statsInterval,
                   stats, historicalData, failure>>

\* fetchStatus after the response: setIsRunning(response.data.running)
StatusSucceeds(running) ==
    /\ BagIn(GetStatus, pending)
    /\ isRunning' = running
    /\ flagWriter' = "status"
    /\ UNCHANGED <<simulationState, events>>
    /\ Render(FALSE, SetToBag({GetStatus}), EmptyBag)
    /\ UNCHANGED <<connVars, mounted, outcome, sendResult, stats,
                   historicalData, failure>>

\* handleStartSimulation after the response: setIsRunning(true)
StartSucceeds ==
    /\ BagIn(PostStart, pending)
    /\ isRunning' = TRUE
    /\ flagWriter' = "command"
    /\ UNCHANGED <<simulationState, events>>
    /\ Render(FALSE, SetToBag({PostStart}), EmptyBag)
    /\ UNCHANGED <<connVars, mounted, outcome, sendResult, stats,
                   historicalData, failure>>

\* handleStopSimulation after the response: setIsRunning(false)
StopSucceeds ==
    /\ BagIn(PostStop, pending)
    /\ isRunning' = FALSE
    /\ flagWriter' = "command"
    /\ UNCHANGED <<simulationState, events>>
    /\ Render(FALSE, SetToBag({PostStop}), EmptyBag)
    /\ UNCHANGED <<connVars, mounted, outcome, sendResult, stats,
                   historicalData, failure>>

\* a variant that clears the snapshot only
ResetSucceedsKeepsEvents ==
    /\ BagIn(PostReset, pending)
    /\ simulationState' = NullSnapshot
    /\ UNCHANGED <<isRunning, events>>
    /\ Render(simulationState # NullSnapshot, SetToBag({PostReset}), EmptyBag)
    /\ UNCHANGED <<connVars, flagWriter, mounted, outcome, sendResult, stats,
                   historicalData, failure>>

\* a variant that also takes the simulation for stopped
ResetSucceedsStops ==
    /\ BagIn(PostReset, pending)
    /\ events' = <<>>
    /\ simulationState' = NullSnapshot
    /\ isRunning' = FALSE
    /\ Render(simulationState # NullSnapshot, SetToBag({PostReset}), EmptyBag)
    /\ UNCHANGED <<connVars, flagWriter, mounted, outcome, sendResult, stats,
                   historicalData, failure>>

\* handleResetSimulation after the response: setEvents([]);
\* setSimulationState(null)
ResetSucceeds ==
    /\ BagIn(PostReset, pending)
    /\ events' = <<>>
    /\ simulationState' = NullSnapshot
    /\ UNCHANGED isRunning
    /\ Render(simulationState # NullSnapshot, SetToBag({PostReset}), EmptyBag)
    /\ UNCHANGED <<connVars, flagWriter, mounted, outcome, sendResult, stats,
                   historicalData, failure>>

\* the GET /events that is answered was issued before the latest reset or
\* stop, or after it: responses arrive in any order
AnsweredEvents ==
    \/ staleEvents > 0 /\ staleEvents' = staleEvents - 1
    \/ /\ CopiesIn(FetchEventsRequest, pending) > staleEvents
       /\ staleEvents' = staleEvents

\* fetchEvents after the response
FetchEventsSucceeds(body) ==
    /\ BagIn(FetchEventsRequest, pending)
    /\ events' = EventsApplied(events, body)
    /\ pending' = pending (-) SetToBag({FetchEventsRequest})
    /\ UNCHANGED <<connVars, elevators, flagWriter, mounted, simulationState, isRunning, outcome,
                   sendResult, eventsInterval, statsInterval, stats,
                   historicalData, failure>>
    /\ AnsweredEvents

\* fetchStats after the response: setStats(response.data) and one more
\* point in the history, if the body has data
FetchStatsSucceeds(body, maxFetches) ==
    /\ BagIn(GetStatistics, pending)
    /\ body.hasData => NextTime(historicalData) <= maxFetches
    /\ stats' = IF body.hasData THEN body.data ELSE stats
    /\ historicalData' =
           IF body.hasData THEN HistoryAppended(historicalData, body.data)
           ELSE historicalData
    /\ pending' = pending (-) SetToBag({GetStatistics})
    /\ UNCHANGED <<connVars, elevators, flagWriter, staleEvents, mounted, simulationState, isRunning, events,
                   outcome, sendResult, eventsInterval, statsInterval, failure>>

\* a variant whose catch clause also stops the polling
RequestFailsStopsPolling(r) ==
    /\ BagIn(r, pending)
    /\ pending' = pending (-) SetToBag({r})
    /\ \E err \in Errors : failure' = FailureReport(r, err)
    /\ eventsInterval' = <<>>
    /\ statsInterval' = <<>>
    /\ UNCHANGED <<connVars, elevators, flagWriter, mounted, simulationState, isRunning, events,
                   outcome, sendResult, stats, historicalData>>
    /\ IF r = FetchEventsRequest THEN AnsweredEvents ELSE UNCHANGED staleEvents

\* request r fails (no response, or a status outside 2xx): the catch clause
\* of its caller logs it, and the one of handleStartSimulation also alerts
RequestFails(r) ==
    /\ BagIn(r, pending)
    /\ pending' = pending (-) SetToBag({r})
    /\ \E err \in Errors : failure' = FailureReport(r, err)
    /\ UNCHANGED <<connVars, elevators, flagWriter, mounted, simulationState, isRunning, events,
                   outcome, sendResult, eventsInterval, statsInterval, stats,
                   historicalData>>
    /\ IF r = FetchEventsRequest THEN AnsweredEvents ELSE UNCHANGED staleEvents

\* ws.onmessage runs on frame f of a connection App acquired
PushApplied(f) ==
    /\ mounted
    /\ LET r == WsOnMessage(Store, f) IN
         /\ simulationState' = r.store.simulationState
         /\ isRunning' = r.store.isRunning
         /\ events' = r.store.events
         /\ outcome' = r.outcome
         /\ Render(r.outcome = "ok" /\ f.val.type = "state_update"
                      /\ (f.val.data.tag = "object" \/ f.val.data # simulationState),
                   EmptyBag, EmptyBag)
    /\ UNCHANGED <<connVars, flagWriter, mounted, sendResult, stats, historicalData, failure>>

\* time passes while an interval has not reached its period
PollTick ==
    /\ \/ eventsInterval # <<>> /\ ~Due(eventsInterval)
       \/ statsInterval # <<>> /\ ~Due(statsInterval)
    /\ eventsInterval' = Advanced(eventsInterval)
    /\ statsInterval' = Advanced(statsInterval)
    /\ UNCHANGED <<connVars, elevators, flagWriter, staleEvents, mounted, simulationState, isRunning, events,
                   outcome, sendResult, pending, stats, historicalData, failure>>

\* the events interval fires: fetchEvents()
EventsTick ==
    /\ Due(eventsInterval)
    /\ eventsInterval' = Interval(eventsInterval[1].delay)
    /\ pending' = pending (+) SetToBag({FetchEventsRequest})
    /\ BagCardinality(pending') <= MaxPending
    /\ UNCHANGED <<connVars, elevators, flagWriter, staleEvents, mounted, simulationState, isRunning, events,
                   outcome, sendResult, statsInterval, stats, historicalData,
                   failure>>

\* the stats interval fires: fetchStats()
StatsTick ==
    /\ Due(statsInterval)
    /\ statsInterval' = Interval(statsInterval[1].delay)
    /\ pending' = pending (+) SetToBag({GetStatistics})
    /\ BagCardinality(pending') <= MaxPending
    /\ UNCHANGED <<connVars, elevators, flagWriter, staleEvents, mounted, simulationState, isRunning, events,
                   outcome, sendResult, eventsInterval, stats, historicalData,
                   failure>>

\* the snapshots pushed to the polling handlers: one with a positive time
\* and one without
PollFrames ==
    {Frame(TRUE, JsonValue("object", "state_update", p)) :
        p \in {SnapshotObject(1, 1), SnapshotObject(0, 1)}}

AppNext ==
    \/ PollMount
    \/ PollUnmount
    \/ HandleStartSimulation
    \/ HandleStopSimulation
    \/ HandleResetSimulation
    \/ \E running \in BOOLEAN : StatusSucceeds(running)
    \/ StartSucceeds
    \/ StopSucceeds
    \/ ResetSucceeds
    \/ \E body \in EventsBodies : FetchEventsSucceeds(body)
    \/ \E body \in StatsBodies : FetchStatsSucceeds(body, MaxAppFetches)
    \/ \E r \in BagToSet(pending) : RequestFails(r)
    \/ \E f \in PollFrames : PushApplied(f)
    \/ PollTick
    \/ EventsTick
    \/ StatsTick

AppSpec == AppInit /\ [][AppNext]_vars

\* the snapshot pushed before the simulated clock has advanced
CommandFrames ==
    {Frame(TRUE, JsonValue("object", "state_update", SnapshotObject(0, 1)))}

\* the six commands of the operator with their responses, within the first
\* period of the events interval and before the simulated clock has
\* advanced (so that Statistics does not poll)
CommandNext ==
    \/ PollMount
    \/ PollUnmount
    \/ HandleStartSimulation
    \/ HandleStopSimulation
    \/ HandleResetSimulation
    \/ \E s \in Floors : \E d \in Floors : HandleAddPassenger(s, d)
    \/ HandleCallElevator
    \/ HandleConfigUpdate
    \/ \E running \in BOOLEAN : StatusSucceeds(running)
    \/ StartSucceeds
    \/ StopSucceeds
    \/ ResetSucceeds
    \/ \E r \in OtherCommands : OtherCommandSucceeds(r)
    \/ \E body \in EventsBodies : FetchEventsSucceeds(body)
    \/ \E r \in BagToSet(pending) : RequestFails(r)
    \/ \E f \in CommandFrames : PushApplied(f)

CommandSpec == AppInit /\ [][CommandNext]_vars

\* a variant whose Add Passenger button is never disabled
AddPassengerEnabledAlways(s, d) == TRUE

\* the disabled attribute of the Add Passenger button, with the floors the
\* selects hold: !isRunning || start_floor === destination_floor
AddPassengerEnabled(s, d) == ~(~isRunning \/ s = d)

\* a click on the Add Passenger button, the only submit control of the
\* passenger form: the browser submits the form if the button is enabled
ClickAddPassenger(s, d) == AddPassengerEnabled(s, d) /\ HandleAddPassenger(s, d)

\* the operator works the buttons of Controls; the responses arrive in any
\* order
ControlsNext ==
    \/ PollMount
    \/ PollUnmount
    \/ HandleStartSimulation
    \/ HandleStopSimulation
    \/ HandleResetSimulation
    \/ \E s \in Floors : \E d \in Floors : ClickAddPassenger(s, d)
    \/ \E running \in BOOLEAN : StatusSucceeds(running)
    \/ StartSucceeds
    \/ StopSucceeds
    \/ ResetSucceeds
    \/ OtherCommandSucceeds(PostPassengers)
    \/ \E body \in EventsBodies : FetchEventsSucceeds(body)
    \/ \E r \in BagToSet(pending) : RequestFails(r)

ControlsSpec == AppInit /\ [][ControlsNext]_vars

\* the Statistics component on its own: no command is clicked and GET
\* /status is not answered with success, so the running flag stays false
StatsNext ==
    \/ PollMount
    \/ PollUnmount
    \/ \E body \in StatsBodies : FetchStatsSucceeds(body, MaxFetches)
    \/ \E r \in BagToSet(pending) : RequestFails(r)
    \/ \E f \in PollFrames : PushApplied(f)
    \/ PollTick
    \/ StatsTick

StatsSpec == AppInit /\ [][StatsNext]_vars

\* ------------------------------------ the earlier App and api.js that are
\* kept in unnamed/part_002.  createWebSocketClient constructs a WebSocket
\* on every call; App keeps the client in state (wsClient) and names that
\* state in the dependencies of its mount effect.  The server never ends a
\* connection.
\* initWebSocket: createWebSocketClient(...); setWsClient(client)
InitWebSocket ==
    /\ Len(readyState) < MaxEarlierSockets
    /\ wsClient' = Len(readyState) + 1

\* the mount effect runs for the first time: initWebSocket(); its cleanup
\* holds the wsClient of this render
EarlierMount ==
    /\ ~mounted
    /\ mounted' = TRUE
    /\ InitWebSocket
    /\ readyState' = Append(readyState, "CONNECTING")
    /\ cleanupClient' = wsClient
    /\ UNCHANGED <<activeWebSocket, wsClientRef, timers, inbox, simulationState,
                   isRunning, events, outcome, sendResult, pending,
                   eventsInterval, statsInterval, stats, historicalData,
                   failure, flagWriter, staleEvents, elevators>>

\* App has rendered with a wsClient that differs from the one the mount
\* effect ran with (dependencies [initWebSocket, wsClient]): the cleanup of
\* the previous run closes the client it captured, if any, and the effect
\* runs again: initWebSocket()
EarlierEffectReruns ==
    /\ mounted
    /\ wsClient # cleanupClient
    /\ InitWebSocket
    /\ readyState' = Append(WsClose(readyState, cleanupClient), "CONNECTING")
    /\ inbox' = DiscardFrames(inbox, cleanupClient)
    /\ cleanupClient' = wsClient
    /\ UNCHANGED <<activeWebSocket, wsClientRef, mounted, timers, simulationState,
                   isRunning, events, outcome, sendResult, pending,
                   eventsInterval, statsInterval, stats, historicalData,
                   failure, flagWriter, staleEvents, elevators>>

\* ws.onclose of a socket the cleanup closed: onDisconnect() logs and calls
\* setTimeout(initWebSocket, 3000)
EarlierOnClose(i) ==
    /\ readyState[i] = "CLOSING"
    /\ readyState' = [readyState EXCEPT ![i] = "CLOSED"]
    /\ timers' = OnDisconnect(timers)
    /\ UNCHANGED <<activeWebSocket, wsClientRef, mounted, inbox, simulationState,
                   isRunning, events, outcome>>
    /\ UNCHANGED pollVars

\* the callback of the oldest timer runs: initWebSocket()
EarlierTimerFires ==
    /\ timers # <<>>
    /\ Head(timers).elapsed >= Head(timers).delay
    /\ timers' = Tail(timers)
    /\ InitWebSocket
    /\ readyState' = Append(readyState, "CONNECTING")
    /\ UNCHANGED <<activeWebSocket, wsClientRef, mounted, inbox, simulationState,
                   isRunning, events, outcome, sendResult, pending,
                   eventsInterval, statsInterval, stats, historicalData,
                   failure, flagWriter, staleEvents, elevators, cleanupClient>>

EarlierNext ==
    \/ EarlierMount
    \/ EarlierEffectReruns
    \/ \E i \in DOMAIN readyState : SocketOpen(i)
    \/ \E i \in DOMAIN readyState : EarlierOnClose(i)
    \/ \E i \in DOMAIN readyState : \E f \in StateUpdateFrames : ServerSend(i, f)
    \/ Deliver
    \/ Tick
    \/ EarlierTimerFires

EarlierSpec == AppInit /\ [][EarlierNext]_vars

\* the types of the variables in the specifications of the current App
TypeOK ==
    /\ readyState \in Seq({"CONNECTING", "OPEN", "CLOSING", "CLOSED"})
    /\ Len(readyState) <= MaxSockets
    /\ activeWebSocket \in {NULL} \cup DOMAIN readyState
    /\ wsClientRef \in {NULL} \cup DOMAIN readyState
    /\ mounted \in BOOLEAN
    /\ Len(inbox) <= MaxInbox
    /\ \A k \in DOMAIN inbox : readyState[inbox[k].sock] = "OPEN"
    /\ Len(timers) <= Len(readyState)
    /\ isRunning \in BOOLEAN
    /\ events \in EventLists
    /\ outcome \in {"none", "ok", "caught"}
    /\ sendResult.result \in {"none", "transmitted", "warned"}
    /\ BagCardinality(pending) <= MaxPending
    /\ Len(eventsInterval) <= 1
    /\ Len(statsInterval) <= 1
    /\ stats \in {InitialStats, StatsObject(1)}
    /\ Len(historicalData) <= HistoryCap
    /\ failure.alerted \in BOOLEAN
    /\ flagWriter \in {"none", "status", "command"}
    /\ staleEvents \in 0 .. CopiesIn(FetchEventsRequest, pending)
    /\ elevators \in 0 .. 1
    /\ wsClient \in {NULL} \cup DOMAIN readyState
    /\ cleanupClient \in {NULL} \cup DOMAIN readyState

\* ------------------------------------------------------------ properties
\* a message task is dispatched to ws.onmessage
Dispatched ==
    /\ inbox # <<>>
    /\ inbox' = Tail(inbox)
    /\ UNCHANGED <<readyState, mounted>>

\* the callback of a reconnect timer runs
TimerCallbackRuns ==
    /\ timers # <<>>
    /\ timers' = Tail(timers)

\* the mount effect calls createWebSocketClient
Acquires == ~mounted /\ mounted' /\ wsClientRef = NULL

HoldsLiveConnection ==
    wsClientRef # NULL /\ readyState[wsClientRef] \in {"CONNECTING", "OPEN"}

\* C1: at most one WebSocket made by createWebSocketClient is in a state
\* other than CLOSED
C1_SingletonDiscipline == Cardinality(NonClosed(readyState)) <= 1

\* C2: createWebSocketClient called while the active connection is OPEN
\* returns that same client, constructs no WebSocket and closes nothing
C2_ReuseWhileOpen ==
    [][(Acquires /\ activeWebSocket # NULL /\ readyState[activeWebSocket] = "OPEN")
          => (wsClientRef' = activeWebSocket /\ readyState' = readyState)]_vars

\* C3: when the connection App holds closes without the client having
\* closed it, then App, unless it is unmounted, comes to hold a new
\* connection that is connecting or open
C3_ReconnectsAfterDrop ==
    (mounted /\ wsClientRef # NULL /\ readyState[wsClientRef] = "CLOSED")
        ~> (~mounted \/ HoldsLiveConnection)

\* C4: the close event of a socket the client closed with close() schedules
\* no reconnect timer (the disconnect notification is not invoked)
C4_IntentionalCloseSilent ==
    [][\A i \in DOMAIN readyState :
          (readyState[i] = "CLOSING" /\ readyState'[i] = "CLOSED")
              => timers' = timers]_vars

\* C5: a close the client did not ask for schedules exactly one reconnect
\* timer, which starts with nothing elapsed, and a timer callback runs only
\* when 3000 ms have elapsed since it was scheduled
C5_OneTimerAfterDelay ==
    [][/\ \A i \in DOMAIN readyState :
             (readyState[i] \in {"CONNECTING", "OPEN"} /\ readyState'[i] = "CLOSED")
                 => /\ Len(timers') = Len(timers) + 1
                    /\ SubSeq(timers', 1, Len(timers)) = timers
                    /\ timers'[Len(timers')].elapsed = 0
       /\ TimerCallbackRuns => Head(timers).elapsed >= ReconnectDelayMs]_vars

\* a dropped connection's timer has run: App is mounted on its first
\* connection, which is closed, and the callback has cleared the ref
C5_Witness ==
    /\ mounted
    /\ readyState = <<"CLOSED">>
    /\ wsClientRef = NULL
    /\ timers = <<>>

\* C6: no reconnect-timer callback runs (and assigns wsClientRef.current)
\* once App has been torn down
C6_NoCallbackAfterTeardown == [][TimerCallbackRuns => mounted]_vars

\* C7: a reconnect timer that fires while App holds a live connection
\* leaves wsClientRef on that connection and creates no connection
C7_StaleTimerIgnored ==
    [][(TimerCallbackRuns /\ HoldsLiveConnection)
          => (wsClientRef' = wsClientRef /\ readyState' = readyState)]_vars

\* C8: after teardown no connection is CONNECTING or OPEN
C8_TeardownClosesAll == ~mounted => Live(readyState) = {}

\* C9: frames are dispatched oldest first, and dispatching a state_update
\* frame leaves the snapshot equal to the whole data payload of that frame
C9_SnapshotReplaced ==
    [][(Dispatched /\ Head(inbox).frame \in StateUpdateFrames)
          => simulationState' = Head(inbox).frame.val.data]_vars

\* a frame without the elevators key has replaced a snapshot
C9_Witness ==
    /\ simulationState = SnapshotObject(2, 0)
    /\ outcome = "ok"

\* C10: a frame that is not valid JSON is dropped: snapshot, running flag
\* and event list keep their values, the exception is caught, the
\* connection stays as it is, and a state_update frame dispatched right
\* after it is applied
C10_MalformedDropped ==
    [][/\ (Dispatched /\ ~Head(inbox).frame.wellFormed)
             => /\ UNCHANGED <<simulationState, isRunning, events>>
                /\ outcome' = "caught"
                /\ UNCHANGED <<readyState, activeWebSocket, wsClientRef>>
       /\ (Dispatched /\ outcome = "caught"
             /\ Head(inbox).frame \in StateUpdateFrames)
             => /\ simulationState' = Head(inbox).frame.val.data
                /\ outcome' = "ok"]_vars

\* a malformed frame was dropped while a snapshot, a set running flag and a
\* non-empty event list were held, and a state_update frame is queued
C10_Witness ==
    /\ outcome = "caught"
    /\ simulationState = SnapshotObject(1, 1)
    /\ isRunning
    /\ events # <<>>
    /\ inbox # <<>>
    /\ Head(inbox).frame \in StateUpdateFrames

\* C11: dispatching a decoded envelope whose type is not 'state_update'
\* leaves the snapshot, the running flag and the event list as they were,
\* and the handler ends without an exception
C11_OtherTypeIgnored ==
    [][(Dispatched /\ Head(inbox).frame.wellFormed
          /\ Head(inbox).frame.val.kind = "object"
          /\ Head(inbox).frame.val.type # "state_update")
          => /\ UNCHANGED <<simulationState, isRunning, events>>
             /\ outcome' = "ok"]_vars

\* an envelope of another type was dispatched before any snapshot arrived,
\* while the running flag was set and the event list was not empty
C11_Witness ==
    /\ outcome = "ok"
    /\ simulationState = NullSnapshot
    /\ isRunning
    /\ events # <<>>

\* C12: a call of client.send transmits exactly when the socket of that
\* client is OPEN; in every other readyState it warns, and in either case
\* it changes nothing but the record of the call
C12_SendOnlyWhenOpen ==
    [][sendResult' # sendResult
          => /\ (sendResult'.result = "transmitted")
                    <=> (readyState[sendResult'.client] = "OPEN")
             /\ (sendResult'.result = "warned")
                    <=> (readyState[sendResult'.client] # "OPEN")
             /\ UNCHANGED <<readyState, activeWebSocket, wsClientRef, mounted,
                            timers, inbox, simulationState, isRunning, events,
                            outcome, pending, eventsInterval, statsInterval,
                            stats, historicalData, failure, flagWriter, staleEvents, elevators>>]_vars

\* send was called on the first client while App was closing its socket,
\* and ended with the warning
C12_Witness ==
    /\ sendResult = [client |-> 1, result |-> "warned"]
    /\ readyState[1] = "CLOSING"

\* request r joins the requests in flight
Issued(r) == CopiesIn(r, pending') > CopiesIn(r, pending)

\* C13: while App is mounted the events interval exists exactly when the
\* running flag is true; GET /events is issued only with the flag true; a
\* false->true change of the flag creates the interval and a true->false
\* change clears it in the same step
C13_EventsTimerIffRunning ==
    /\ [](mounted => ((eventsInterval # <<>>) <=> isRunning))
    /\ [][/\ Issued(FetchEventsRequest) => isRunning'
          /\ (mounted /\ ~isRunning /\ isRunning')
                => (eventsInterval' = Interval(EventsPollMs)
                      /\ Issued(FetchEventsRequest))
          /\ (isRunning /\ ~isRunning') => eventsInterval' = <<>>]_vars

\* the flag went back to false while a GET /events was in flight: the
\* interval is gone although App is mounted and holds fetched events
C13_Witness ==
    /\ mounted
    /\ ~isRunning
    /\ eventsInterval = <<>>
    /\ events # <<>>
    /\ BagIn(FetchEventsRequest, pending)

\* C14: GET /stats is issued only with the running flag true; a false->true
\* change of the flag creates the stats interval and a true->false change
\* clears it in the same step
C14_StatsTimerIffRunning ==
    [][/\ Issued(GetStatistics) => isRunning'
       /\ (mounted /\ ~isRunning /\ isRunning') => statsInterval' # <<>>
       /\ (isRunning /\ ~isRunning') => statsInterval' = <<>>]_vars

\* C15: once the components are torn down neither interval exists and no
\* GET /events or GET /stats is issued
C15_TeardownCancelsPolling ==
    /\ [](~mounted => (eventsInterval = <<>> /\ statsInterval = <<>>))
    /\ [][~mounted' => (~Issued(FetchEventsRequest) /\ ~Issued(GetStatistics))]_vars

\* torn down while the flag was true and a snapshot with a positive time
\* was held, that is while both intervals existed
C15_Witness ==
    /\ ~mounted
    /\ isRunning
    /\ StatsGate(simulationState)
    /\ eventsInterval = <<>>
    /\ statsInterval = <<>>

\* C16: the history never holds more than 20 points; a successful fetch
\* with data puts one new point, later than all others, at the end, and
\* drops the oldest point if 20 were held; so the history is the last
\* min(n, 20) of the points made so far, in the order they were made
C16_HistoryCapped ==
    /\ [](/\ Len(historicalData) <= 20
          /\ LET n == IF historicalData = <<>> THEN 0
                       ELSE historicalData[Len(historicalData)].time
             IN  /\ Len(historicalData) = (IF n < 20 THEN n ELSE 20)
                 /\ \A k \in DOMAIN historicalData :
                        historicalData[k].time = n - Len(historicalData) + k)
    /\ [][(\E body \in StatsBodies :
              body.hasData /\ FetchStatsSucceeds(body, MaxFetches))
            => LET new == historicalData'[Len(historicalData')] IN
                /\ historicalData' # <<>>
                /\ \A k \in DOMAIN historicalData : historicalData[k].time < new.time
                /\ historicalData' =
                      IF Len(historicalData) < 20
                      THEN Append(historicalData, new)
                      ELSE Append(Tail(historicalData), new)]_vars

\* twenty-two fetches succeeded: the history holds points 3 to 22
C16_Witness ==
    /\ Len(historicalData) = 20
    /\ historicalData[1].time = 3
    /\ historicalData[20].time = 22

\* C17: a successful GET /events whose body has an events list leaves the
\* local list equal to that list, and every GET /events in flight asks for
\* 100 events
C17_EventsReplaced ==
    /\ [](\A r \in BagToSet(pending) : r.path = "/events" => r.limit = 100)
    /\ [][\A body \in EventsBodies :
             (body.hasEvents /\ FetchEventsSucceeds(body))
                => events' = body.events]_vars

\* a fetched list is held and the request that brought it was answered
C17_Witness ==
    /\ events = <<"event">>
    /\ mounted
    /\ isRunning
    /\ ~BagIn(FetchEventsRequest, pending)

\* C18: a failed GET /events or GET /stats leaves event list, statistics,
\* history, running flag and snapshot as they were, is logged without an
\* alert, and leaves both intervals with the time they have run
C18_FetchFailureSkipped ==
    [][\A r \in {FetchEventsRequest, GetStatistics} :
          RequestFails(r)
            => /\ UNCHANGED <<events, stats, historicalData, isRunning,
                              simulationState>>
               /\ UNCHANGED <<eventsInterval, statsInterval>>
               /\ failure'.request = r
               /\ ~failure'.alerted]_vars

\* a GET /events failed, the fetched list is still held, and the interval
\* has fired again: the next request is in flight
C18_Witness ==
    /\ failure.request = FetchEventsRequest
    /\ events # <<>>
    /\ eventsInterval # <<>>
    /\ BagIn(FetchEventsRequest, pending)

\* C19: the step that handles a successful start response leaves the flag
\* true, the one for a successful stop response leaves it false, and the
\* steps that issue a start or stop request, or handle its failure, leave the
\* flag as it was
C19_FlagFollowsResponse ==
    [][/\ StartSucceeds => isRunning'
       /\ StopSucceeds => ~isRunning'
       /\ (Issued(PostStart) \/ Issued(PostStop)) => isRunning' = isRunning
       /\ (RequestFails(PostStart) \/ RequestFails(PostStop))
             => isRunning' = isRunning]_vars

\* a stop request is in flight and the flag is still true
C19_Witness ==
    /\ isRunning
    /\ BagIn(PostStop, pending)

\* C20: the step that handles a successful reset response leaves the
\* snapshot null and the event list empty
C20_ResetClears ==
    [][ResetSucceeds => (simulationState' = NullSnapshot /\ events' = <<>>)]_vars

\* a reset succeeded after statistics were fetched for a snapshot: snapshot
\* and event list are empty and the stats interval is gone
C20_Witness ==
    /\ mounted
    /\ isRunning
    /\ simulationState = NullSnapshot
    /\ events = <<>>
    /\ stats # InitialStats
    /\ statsInterval = <<>>

\* C21: neither the step that issues a start, stop or reset request nor the
\* step that handles its failure changes the running flag, the snapshot or
\* the event list
C21_FailedCommandKeepsState ==
    [][\A r \in {PostStart, PostStop, PostReset} :
          (Issued(r) \/ RequestFails(r))
             => UNCHANGED <<isRunning, simulationState, events>>]_vars

\* a reset failed while the flag was true and a snapshot and fetched events
\* were held: all three are still there
C21_Witness ==
    /\ failure.request = PostReset
    /\ isRunning
    /\ simulationState = SnapshotObject(1, 1)
    /\ events # <<>>

\* the requests of the six commands
Commands == {PostStart, PostStop, PostReset} \cup OtherCommands

\* C22: the step that handles the failure of any of the six commands calls
\* alert for that command
C22_CommandFailureSurfaced ==
    [][\A r \in Commands :
          RequestFails(r) => (failure'.request = r /\ failure'.alerted)]_vars

\* C23: the text alerted for a failed start or add-passenger command holds
\* the server's detail if the error has one, and the message of the error
\* otherwise
C23_AlertTextHasCause ==
    (failure.alerted /\ failure.request \in Alerting)
       => LET parts == {failure.message[k] : k \in DOMAIN failure.message} IN
            IF failure.error.hasDetail
            THEN ServerDetail \in parts
            ELSE TransportMessage \in parts

\* C24: a submission of the passenger form with equal floors issues no
\* request and alerts the validation failure in the same step; one with
\* different floors adds exactly one POST /passengers to the requests in
\* flight
C24_AddPassengerValidated ==
    [][\A s \in Floors : \A d \in Floors :
          HandleAddPassenger(s, d)
             => IF s = d
                THEN pending' = pending /\ failure' = ValidationReport
                ELSE /\ CopiesIn(PostPassengers, pending')
                          = CopiesIn(PostPassengers, pending) + 1
                     /\ BagCardinality(pending')
                          = BagCardinality(pending) + 1]_vars

\* the validation failure was alerted while the simulation was running and
\* no POST /passengers is in flight
C24_Witness ==
    /\ failure = ValidationReport
    /\ isRunning
    /\ ~BagIn(PostPassengers, pending)

\* C25: once a start or stop command has written the running flag, the step
\* that handles a GET /status response leaves the flag as it is
C25_StatusDoesNotOverwrite ==
    [][(flagWriter = "command" /\ \E running \in BOOLEAN : StatusSucceeds(running))
          => isRunning' = isRunning]_vars

\* C26: the steps that issue addPassenger, pressButton or updateConfig, and
\* the steps that handle their success or failure, leave the running flag,
\* the snapshot and the event list as they were
C26_OtherCommandsKeepState ==
    [][\A r \in OtherCommands :
          (Issued(r) \/ OtherCommandSucceeds(r) \/ RequestFails(r))
             => UNCHANGED <<isRunning, simulationState, events>>]_vars

\* an updateConfig failed while the flag was true and a snapshot and
\* fetched events were held
C26_Witness ==
    /\ failure.request = PutConfig
    /\ isRunning
    /\ simulationState = SnapshotObject(0, 1)
    /\ events # <<>>

\* C27: dispatching a frame that parses to null, to a value that is not an
\* object, or to a state_update object without data leaves the snapshot as
\* it was; the snapshot is never undefined; and a state_update frame with a
\* payload dispatched afterwards is applied
C27_ShapelessDropped ==
    /\ [](simulationState # UndefinedValue)
    /\ [][/\ (Dispatched /\ Head(inbox).frame \in ShapelessFrames)
                => simulationState' = simulationState
          /\ (Dispatched /\ Head(inbox).frame \in StateUpdateFrames)
                => simulationState' = Head(inbox).frame.val.data]_vars

\* C28: while the statistics interval is running, applying a pushed
\* snapshot of a running simulation issues no GET /stats and leaves the
\* interval with the time it has run, so that requests are issued by the
\* ticks of the interval only
C28_StatsDrivenByTimerAlone ==
    [][(statsInterval # <<>>
          /\ \E f \in PollFrames : StatsGate(f.val.data) /\ PushApplied(f))
          => (~Issued(GetStatistics) /\ statsInterval' = statsInterval)]_vars

\* the connection created last
Latest == Len(readyState)

\* C29: activeWebSocket is non-null exactly while the connection created
\* last is connecting or open, and is then the client of that connection;
\* the close event of an older connection leaves a reference to a newer one
\* as it is
C29_ActiveIsLatest ==
    /\ [](/\ (activeWebSocket # NULL)
               <=> (Latest > 0 /\ readyState[Latest] \in {"CONNECTING", "OPEN"})
          /\ activeWebSocket # NULL => activeWebSocket = Latest)
    /\ [][\A i \in DOMAIN readyState :
             (readyState[i] # "CLOSED" /\ readyState'[i] = "CLOSED"
                /\ activeWebSocket # NULL /\ activeWebSocket # i)
                => activeWebSocket' = activeWebSocket]_vars

\* C30: a frame dispatched on a connection that has been replaced by a
\* newer one leaves the snapshot as it was (a connection the client closed
\* dispatches nothing)
C30_OnlyHeldConnectionReachesStore ==
    /\ [](\A k \in DOMAIN inbox : readyState[inbox[k].sock] = "OPEN")
    /\ [][(Dispatched /\ Head(inbox).sock # Latest)
            => simulationState' = simulationState]_vars

\* C31: the step that handles a successful reset response leaves the running
\* flag and the events interval, with the time it has run, as they were and
\* issues no GET /events; so while App is mounted the interval exists after
\* the step exactly when the flag was true before it
C31_ResetKeepsFlag ==
    [][ResetSucceeds
         => /\ isRunning' = isRunning
            /\ eventsInterval' = eventsInterval
            /\ ~Issued(FetchEventsRequest)
            /\ mounted => ((eventsInterval' # <<>>) <=> isRunning)]_vars

\* a reset succeeded after a point of the history was made, the flag is
\* still true and the events interval has kept the time it had run
C31_Witness ==
    /\ mounted
    /\ isRunning
    /\ simulationState = NullSnapshot
    /\ events = <<>>
    /\ historicalData # <<>>
    /\ ~BagIn(PostReset, pending)
    /\ eventsInterval # <<>>
    /\ eventsInterval[1].elapsed > 0

\* C32: the step that handles the response of a GET /events issued before
\* the latest successful reset, or before the running flag became false,
\* leaves the event list as it was
C32_StaleEventsDropped ==
    [][((\E body \in EventsBodies : FetchEventsSucceeds(body))
           /\ staleEvents' < staleEvents)
         => events' = events]_vars

\* C33: while Building is mounted the elevators it draws are those of the
\* current snapshot, and none when the snapshot is null; so after a
\* successful reset Building draws no elevators
C33_BuildingReflectsSnapshot ==
    /\ [](mounted => elevators = (IF simulationState.tag = "object"
                                  THEN simulationState.elevators ELSE 0))
    /\ [][(mounted /\ ResetSucceeds) => elevators' = 0]_vars

\* C34: through the buttons of Controls a start request is issued only while
\* the running flag is false, a stop request only while it is true, and an
\* add-passenger request only while it is true and the two floors differ, so
\* that the handler's alert for equal floors is never reached
C34_ControlsGated ==
    /\ [](failure # ValidationReport)
    /\ [][/\ Issued(PostStart) => ~isRunning
          /\ Issued(PostStop) => isRunning
          /\ Issued(PostPassengers) => isRunning
          /\ \A s \in Floors : \A d \in Floors :
                (ClickAddPassenger(s, d) \/ HandleAddPassenger(s, d))
                   => (isRunning /\ s # d /\ Issued(PostPassengers))]_vars

\* an add-passenger request issued while the flag was true is still in
\* flight after a stop has succeeded
C34_Witness ==
    /\ mounted
    /\ BagIn(PostPassengers, pending)
    /\ ~isRunning
    /\ flagWriter = "command"
    /\ failure = NoFailure

\* C35: once the earlier App is mounted, exactly one connection has been
\* created, whatever time passes, as long as the server ends none
C35_MountCreatesOne ==
    mounted => Len(readyState) = 1

====
